---- MODULE Spec2Model ----
(***************************************************************************)
(* save-sync: the backup synchronisation engine (cli/src/archive.rs), the  *)
(* metadata store it writes to (src/database.rs) and the content hasher    *)
(* (src/archive.rs), as a state machine over one filesystem and one        *)
(* database.                                                               *)
(*                                                                         *)
(* A path is the sequence of its components.  The filesystem `disk` maps   *)
(* every existing path to a directory or to a regular file with its bytes. *)
(* The tables `saves` and `files` are sets of rows.  One workflow          *)
(* operation runs at a time (`pc` is its position, `cr`, `del`, `upd` its  *)
(* locals); other processes change the live tree between any two steps.    *)
(***************************************************************************)
EXTENDS Integers, Sequences, FiniteSets, TLC

VARIABLES disk, saves, files, pc, cr, del, upd, result, uuids, budget,
          raced, mapIn, mapOut,
          users, config, cfg_file, lock, thr, callIn, callOut

\* the users table, the configuration singleton CONFIG with its file and
\* its lock, the threads that use it, and the argument and result of a
\* function called on its own
ext == <<users, config, cfg_file, lock, thr, callIn, callOut>>

vars == <<disk, saves, files, pc, cr, del, upd, result, uuids, budget,
          raced, mapIn, mapOut, ext>>

(***************************************************************************)
(* Bounds of the model.                                                    *)
(***************************************************************************)
\* number of create_save calls that get as far as a UUID, in Spec
MaxUuids == 1
\* the same, in SpecStore
MaxSaves == 2
\* number of events from outside the workflow: changes other processes make
\* to the live tree, direct calls of the Database API, kills of the process
MaxEvents == 2
\* bytes read per iteration of calc_hash's loop (0x4000 in the source)
ChunkSize == 2
\* longest original path handed to get_backup_path in SpecMap
MaxPathLen == 4

\* Option<T>
None == [some |-> FALSE]
Some(v) == [some |-> TRUE, val |-> v]

(***************************************************************************)
(* Paths (std::path::Path), as sequences of components.                    *)
(***************************************************************************)
IsPrefix(p, q) == Len(p) <= Len(q) /\ SubSeq(q, 1, Len(p)) = p

\* Path::parent
Parent(p) == IF p = <<>> THEN None ELSE Some(SubSeq(p, 1, Len(p) - 1))

\* Path::file_name
FileName(p) == IF p = <<>> THEN None ELSE Some(p[Len(p)])

\* Path::join with a relative path
Join(p, q) == p \o q

\* Path::strip_prefix: None when base is no prefix of p
StripPrefix(p, base) ==
    IF IsPrefix(base, p) THEN Some(SubSeq(p, Len(base) + 1, Len(p))) ELSE None

(***************************************************************************)
(* Configuration (Config::default): where the backups live, the hash seed. *)
(***************************************************************************)
data_location == <<"data">>

\* Config::default sets 1_912_251_925_143; here reduced modulo the hash width
xxhash_seed == 49815

\* Config::default
Config_default ==
    [db_location |-> <<"data", "saves.db">>, data_location |-> data_location,
     xxhash_seed |-> xxhash_seed, local_username |-> "Default"]

(***************************************************************************)
(* The live side: two save roots and the entries beneath the first.        *)
(***************************************************************************)
Root1 == <<"home", "game">>
Root2 == <<"home", "alt">>
Roots == {Root1, Root2}

FileA == Root1 \o <<"a">>
FileD == Root1 \o <<"d">>
LivePaths == {FileA, FileD}

\* file contents: shorter than, and longer than, one chunk of calc_hash
Bytes1 == <<1>>
Bytes2 == <<2, 3, 1>>
Contents == {Bytes1, Bytes2}

Dir == [kind |-> "dir", bytes |-> <<>>]
RegFile(b) == [kind |-> "file", bytes |-> b]

\* directories above the roots: always there, never touched
ImplicitDirs == {<<>>, <<"home">>}

(***************************************************************************)
(* Filesystem queries and calls (std::fs, std::path::Path).                *)
(***************************************************************************)
Exists(d, p) == p \in DOMAIN d \/ p \in ImplicitDirs
IsDir(d, p) == p \in ImplicitDirs \/ (p \in DOMAIN d /\ d[p].kind = "dir")
IsFile(d, p) == p \in DOMAIN d /\ d[p].kind = "file"

Put(d, p, e) == [q \in DOMAIN d \cup {p} |-> IF q = p THEN e ELSE d[q]]

\* the entries fs::read_dir lists
ReadDir(d, p) == {q \in DOMAIN d : Len(q) = Len(p) + 1 /\ IsPrefix(p, q)}

Ancestors(p) == {SubSeq(p, 1, n) : n \in 0..Len(p)}

\* fs::create_dir_all: fails when a component of p exists as a file
CreateDirAllOk(d, p) == \A q \in Ancestors(p) : ~IsFile(d, q)
CreateDirAll(d, p) ==
    [q \in DOMAIN d \cup (Ancestors(p) \ ImplicitDirs) |->
        IF q \in DOMAIN d THEN d[q] ELSE Dir]

\* fs::copy: the source is a regular file, the target's parent a directory,
\* the target no directory
FsCopyOk(d, from, to) ==
    /\ IsFile(d, from)
    /\ to # <<>>
    /\ IsDir(d, Parent(to).val)
    /\ ~IsDir(d, to)
FsCopy(d, from, to) == Put(d, to, RegFile(d[from].bytes))

\* fs::remove_file
RemoveFileOk(d, p) == IsFile(d, p)
RemoveFile(d, p) == [q \in DOMAIN d \ {p} |-> d[q]]

\* fs::remove_dir_all
RemoveDirAllOk(d, p) == p \in DOMAIN d /\ d[p].kind = "dir"
RemoveDirAll(d, p) == [q \in {r \in DOMAIN d : ~IsPrefix(p, r)} |-> d[q]]

(***************************************************************************)
(* Content hasher (src/archive.rs).  XxHash64 is modelled as a streaming   *)
(* accumulator over 16 bits: write feeds the bytes of one chunk in order,  *)
(* finish mixes the state once more.                                       *)
(***************************************************************************)
HashMod == 65536

RECURSIVE hasher_write(_, _)
hasher_write(h, chunk) ==
    IF chunk = <<>> THEN h
    ELSE hasher_write((h * 31 + Head(chunk) + 1) % HashMod, Tail(chunk))

hasher_finish(h) == (h * 7 + 3) % HashMod

Take(s, n) == SubSeq(s, 1, IF Len(s) < n THEN Len(s) ELSE n)
Drop(s, n) == SubSeq(s, n + 1, Len(s))

\* the loop ending on the first short read, before the write
RECURSIVE hash_loop_stopping_on_short_read(_, _, _)
hash_loop_stopping_on_short_read(h, rest, chunk_size) ==
    LET chunk == Take(rest, chunk_size)
    IN  IF Len(chunk) < chunk_size THEN h
        ELSE hash_loop_stopping_on_short_read(hasher_write(h, chunk),
                                              Drop(rest, Len(chunk)), chunk_size)

\* the loop of calc_hash: read at most chunk_size bytes, stop on an empty read
RECURSIVE hash_loop(_, _, _)
hash_loop(h, rest, chunk_size) ==
    LET chunk == Take(rest, chunk_size)
    IN  IF Len(chunk) = 0 THEN h
        ELSE hash_loop(hasher_write(h, chunk), Drop(rest, Len(chunk)), chunk_size)

\* Archive::calc_hash of the file with these bytes
calc_hash(bytes) == hasher_finish(hash_loop(xxhash_seed, bytes, ChunkSize))

\* Archive::u64_to_byte_vec: the eight bytes of num, least significant first
RECURSIVE le_bytes(_, _)
le_bytes(num, n) ==
    IF n = 0 THEN <<>> ELSE <<num % 256>> \o le_bytes(num \div 256, n - 1)

u64_to_byte_vec(num) == le_bytes(num, 8)

\* the digest a File row stores for a file with these bytes
Digest(bytes) == u64_to_byte_vec(calc_hash(bytes))

Digests == {Digest(b) : b \in Contents}

(***************************************************************************)
(* Backup path mapper (cli/src/archive.rs).                                *)
(***************************************************************************)
\* the loop of get_backup_path: push components up to and including the
\* first one that equals the backup root's name
RECURSIVE base_loop(_, _, _)
base_loop(base, rest, common_component_name) ==
    IF rest = <<>> THEN base
    ELSE IF Head(rest) = common_component_name THEN Append(base, Head(rest))
    ELSE base_loop(Append(base, Head(rest)), Tail(rest), common_component_name)

\* Archive::get_backup_path: None for an error
get_backup_path(file_path, backup_path) ==
    LET common_component_name == FileName(backup_path)
    IN  IF ~common_component_name.some THEN None
        ELSE LET base == base_loop(<<>>, file_path, common_component_name.val)
                 prefixless == StripPrefix(file_path, base)
             IN  IF ~prefixless.some THEN None
                 ELSE Some(Join(backup_path, prefixless.val))

\* Archive::create_backup_path: None for an error
create_backup_path(path, uuid) ==
    LET name == FileName(path)
    IN  IF ~name.some THEN None
        ELSE Some(Join(Join(data_location, <<uuid>>), <<name.val>>))

(***************************************************************************)
(* Directory crawler (cli/src/archive.rs).  fs::read_dir lists a directory *)
(* in an order the OS chooses, so crawl has a set of possible results.     *)
(***************************************************************************)
RECURSIVE Orders(_)
Orders(S) ==
    IF S = {} THEN {<<>>}
    ELSE UNION {{<<x>> \o o : o \in Orders(S \ {x})} : x \in S}

RECURSIVE crawl(_, _), crawl_list(_, _)
\* the loop body of crawl over the listed entries: a directory's descendants,
\* then the entry itself
crawl_list(d, list) ==
    IF list = <<>> THEN {<<>>}
    ELSE LET path == Head(list)
             sub == IF IsDir(d, path) THEN crawl(d, path) ELSE {<<>>}
         IN  UNION {{s \o <<path>> \o r : r \in crawl_list(d, Tail(list))} : s \in sub}

\* Archive::crawl: empty when read_dir fails
crawl(d, path) ==
    IF ~IsDir(d, path) THEN {<<>>}
    ELSE UNION {crawl_list(d, list) : list \in Orders(ReadDir(d, path))}

(***************************************************************************)
(* Archive::copy_file_to_backup_dir.  The result is [ok, disk]: on failure *)
(* the directories created before the failing call stay.                   *)
(***************************************************************************)
copy_file_to_backup_dir(d, backup_path, file_path, io_fault) ==
    LET mapped == get_backup_path(file_path, backup_path)
        backup_destination == mapped.val
        backup_destination_parent == Parent(backup_destination)
        parent_there == Exists(d, backup_destination_parent.val)
        d1 == IF parent_there THEN d
              ELSE CreateDirAll(d, backup_destination_parent.val)
    IN  IF ~mapped.some THEN [ok |-> FALSE, disk |-> d]
        ELSE IF IsDir(d, file_path) THEN
            IF Exists(d, backup_destination) THEN [ok |-> TRUE, disk |-> d]
            ELSE IF io_fault \/ ~CreateDirAllOk(d, backup_destination)
                 THEN [ok |-> FALSE, disk |-> d]
                 ELSE [ok |-> TRUE, disk |-> CreateDirAll(d, backup_destination)]
        ELSE IF ~backup_destination_parent.some THEN [ok |-> FALSE, disk |-> d]
        ELSE IF ~parent_there /\ ~CreateDirAllOk(d, backup_destination_parent.val)
             THEN [ok |-> FALSE, disk |-> d]
        ELSE IF io_fault \/ ~FsCopyOk(d1, file_path, backup_destination)
             THEN [ok |-> FALSE, disk |-> d1]
        ELSE [ok |-> TRUE, disk |-> FsCopy(d1, file_path, backup_destination)]

(***************************************************************************)
(* Metadata store (src/database.rs).  A row gets the next free id.         *)
(***************************************************************************)
MaxOf(S) == IF S = {} THEN 0 ELSE CHOOSE x \in S : \A y \in S : y <= x
NextId(rows) == MaxOf({r.id : r \in rows}) + 1

\* SaveQuery::new() and FileQuery::new()
SaveQuery == [id |-> None, friendly_name |-> None, uuid |-> None, path |-> None,
              user_id |-> None]
FileQuery == [id |-> None, path |-> None, hash |-> None, save_id |-> None]

\* the rows of a query result, in id order
RECURSIVE ById(_)
ById(rows) ==
    IF rows = {} THEN <<>>
    ELSE LET r == CHOOSE x \in rows : \A y \in rows : x.id <= y.id
         IN  <<r>> \o ById(rows \ {r})

\* match list.len() { 0 => None, 1 => Some(first), _ => panic!() }
OneOf(list) ==
    IF list = {} THEN [kind |-> "none"]
    ELSE IF Cardinality(list) = 1 THEN [kind |-> "some", val |-> CHOOSE r \in list : TRUE]
    ELSE [kind |-> "panic"]

does_save_exist(S, path) == \E r \in S : r.save_path = path

does_file_exist(F, path) == \E r \in F : r.file_path = path

\* the insert without the does_save_exist test
Database_create_save_unchecked(S, save) ==
    S \cup {[id |-> NextId(S), friendly_name |-> save.friendly_name,
             save_path |-> save.save_path, backup_path |-> save.backup_path,
             uuid |-> save.uuid, user_id |-> save.user_id]}

Database_create_save(S, save) ==
    IF ~does_save_exist(S, save.save_path)
    THEN S \cup {[id |-> NextId(S), friendly_name |-> save.friendly_name,
                  save_path |-> save.save_path, backup_path |-> save.backup_path,
                  uuid |-> save.uuid, user_id |-> save.user_id]}
    ELSE S

\* the if / else-if chain of get_save: id, friendly_name, path
get_save_list(S, query) ==
    IF query.id.some THEN {r \in S : r.id = query.id.val}
    ELSE IF query.friendly_name.some
         THEN {r \in S : r.friendly_name = query.friendly_name.val}
    ELSE IF query.path.some THEN {r \in S : r.save_path = query.path.val}
    ELSE {}

get_save(S, query) == OneOf(get_save_list(S, query))

Database_update_save(S, edit) ==
    {IF r.id # edit.id THEN r
     ELSE [r EXCEPT !.friendly_name = IF edit.friendly_name.some
                                      THEN edit.friendly_name.val ELSE @,
                    !.save_path = IF edit.save_path.some
                                  THEN edit.save_path.val ELSE @] : r \in S}

Database_delete_save(S, query) ==
    IF query.id.some THEN {r \in S : r.id # query.id.val}
    ELSE IF query.friendly_name.some
         THEN {r \in S : r.friendly_name # query.friendly_name.val}
    ELSE IF query.path.some THEN {r \in S : r.save_path # query.path.val}
    ELSE S

Database_create_file(F, file) ==
    IF ~does_file_exist(F, file.file_path)
    THEN F \cup {[id |-> NextId(F), file_path |-> file.file_path,
                  file_hash |-> file.file_hash, save_id |-> file.save_id]}
    ELSE F

get_file(F, query) ==
    OneOf(IF query.id.some THEN {r \in F : r.id = query.id.val}
          ELSE IF query.path.some THEN {r \in F : r.file_path = query.path.val}
          ELSE IF query.hash.some THEN {r \in F : r.file_hash = query.hash.val}
          ELSE {})

\* None when no row matches
get_files(F, query) ==
    LET list == IF query.save_id.some
                THEN ById({r \in F : r.save_id = query.save_id.val}) ELSE <<>>
    IN  IF list = <<>> THEN None ELSE Some(list)

Database_update_file(F, edit) ==
    {IF r.id = edit.id THEN [r EXCEPT !.file_hash = edit.file_hash] ELSE r : r \in F}

Database_delete_file(F, query) ==
    IF query.id.some THEN {r \in F : r.id # query.id.val}
    ELSE IF query.path.some THEN {r \in F : r.file_path # query.path.val}
    ELSE IF query.hash.some THEN {r \in F : r.file_hash # query.hash.val}
    ELSE F

(***************************************************************************)
(* Archive::create_file and Archive::update_file (cli/src/archive.rs):     *)
(* hash the live file, then write the row.  [ok, files].                   *)
(***************************************************************************)
Archive_create_file(F, d, save, path) ==
    IF ~IsFile(d, path) THEN [ok |-> FALSE, files |-> F]
    ELSE [ok |-> TRUE,
          files |-> Database_create_file(F,
                      [file_path |-> path, file_hash |-> Digest(d[path].bytes),
                       save_id |-> save.id])]

Archive_update_file(F, d, path) ==
    LET original_file == get_file(F, [FileQuery EXCEPT !.path = Some(path)])
    IN  IF original_file.kind # "some" \/ ~IsFile(d, path)
        THEN [ok |-> FALSE, files |-> F]
        ELSE [ok |-> TRUE,
              files |-> Database_update_file(F,
                          [id |-> original_file.val.id,
                           file_hash |-> Digest(d[path].bytes)])]

\* the loop of create_save over the crawl result: a row for every regular file
RECURSIVE create_files(_, _, _, _)
create_files(F, d, save, list) ==
    IF list = <<>> THEN [ok |-> TRUE, files |-> F]
    ELSE IF ~IsFile(d, Head(list)) THEN create_files(F, d, save, Tail(list))
    ELSE LET r == Archive_create_file(F, d, save, Head(list))
         IN  IF ~r.ok THEN r ELSE create_files(r.files, d, save, Tail(list))


(***************************************************************************)
(* Change detector: the body of Archive::check_save, given the rows of     *)
(* `files`, the disk, the Save and one result of the crawl.                *)
(***************************************************************************)
InSeq(x, list) == \E k \in 1..Len(list) : list[k] = x

\* the first loop: Missing for every tracked row whose path the crawl lacks
RECURSIVE check_missing(_, _)
check_missing(tracked, current) ==
    IF tracked = <<>> THEN <<>>
    ELSE (IF ~InSeq(Head(tracked).file_path, current)
          THEN <<[change |-> "Missing", path |-> Head(tracked).file_path]>>
          ELSE <<>>) \o check_missing(Tail(tracked), current)

\* tracked_hash_map.get: the hash inserted last for this path
tracked_hash(tracked, path) ==
    LET ks == {k \in 1..Len(tracked) : tracked[k].file_path = path}
    IN  IF ks = {} THEN None ELSE Some(tracked[MaxOf(ks)].file_hash)

\* the second loop: New or Update for the regular files of the crawl
RECURSIVE check_current(_, _, _)
check_current(tracked, d, current) ==
    IF current = <<>> THEN <<>>
    ELSE LET file_path == Head(current)
             expected == tracked_hash(tracked, file_path)
             here ==
                 IF ~IsFile(d, file_path) THEN <<>>
                 ELSE IF ~expected.some
                      THEN <<[change |-> "New", path |-> file_path]>>
                 ELSE IF Digest(d[file_path].bytes) # expected.val
                      THEN <<[change |-> "Update", path |-> file_path]>>
                 ELSE <<>>
         IN  here \o check_current(tracked, d, Tail(current))

\* check_save with the loop over the crawl before the loop over the rows
check_save_current_first(F, d, save, current) ==
    LET tracked == get_files(F, [FileQuery EXCEPT !.save_id = Some(save.id)])
    IN  IF ~tracked.some THEN [ok |-> FALSE, changes |-> <<>>]
        ELSE [ok |-> TRUE,
              changes |-> check_current(tracked.val, d, current)
                          \o check_missing(tracked.val, current)]

\* Archive::check_save: [ok, changes]
check_save(F, d, save, current) ==
    LET tracked == get_files(F, [FileQuery EXCEPT !.save_id = Some(save.id)])
    IN  IF ~tracked.some THEN [ok |-> FALSE, changes |-> <<>>]
        ELSE [ok |-> TRUE,
              changes |-> check_missing(tracked.val, current)
                          \o check_current(tracked.val, d, current)]

(***************************************************************************)
(* The state machine.                                                      *)
(***************************************************************************)
Idle == [op |-> "none"]

\* the part of the disk under data_location
BackupSide(d) == [p \in {q \in DOMAIN d : IsPrefix(data_location, q)} |-> d[p]]
\* the RwLock of CONFIG with no guard out
LockFree == [writer |-> "none", readers |-> <<>>]

\* nothing outside the workflow is running: the configuration is the default
ExtIdle ==
    /\ users = {}
    /\ config = Config_default
    /\ cfg_file = None
    /\ lock = LockFree
    /\ thr = <<>>
    /\ callIn = Idle
    /\ callOut = Idle

NoResult == [op |-> "none", status |-> "none"]

\* Uuid::new_v4: a fresh identifier each call
UuidNames == <<"u1", "u2", "u3", "u4">>

\* SaveOptions.friendly_name
FriendlyNames == {None, Some("n")}

local_user == [id |-> 1]

Init ==
    /\ disk = [p \in {data_location, Root1, Root2, FileA} |->
                 IF p = FileA THEN RegFile(Bytes1) ELSE Dir]
    /\ saves = {}
    /\ files = {}
    /\ pc = "idle"
    /\ cr = Idle
    /\ del = Idle
    /\ upd = Idle
    /\ result = NoResult
    /\ uuids = 0
    /\ budget = 0
    /\ raced = FALSE
    /\ mapIn = Idle
    /\ mapOut = Idle
    /\ ExtIdle

Finish(r) ==
    /\ pc' = "idle"
    /\ cr' = Idle
    /\ del' = Idle
    /\ upd' = Idle
    /\ result' = r

(***************************************************************************)
(* Archive::create_save, in its steps.                                     *)
(***************************************************************************)
\* create_save without the test of path.exists()
create_save_begin_unchecked(path, friendly_name) ==
    /\ pc = "idle"
    /\ raced' = FALSE
    /\ UNCHANGED <<disk, saves, files, del, upd, budget, mapIn, mapOut, ext>>
    /\ LET uuid == UuidNames[uuids + 1]
           backup_pathbuf == create_backup_path(path, uuid)
       IN  /\ uuids' = uuids + 1
           /\ IF ~backup_pathbuf.some
              THEN Finish([op |-> "create", status |-> "Err",
                           at |-> "backup_path", path |-> path])
              ELSE \E list \in crawl(disk, path) :
                     /\ cr' = [op |-> "create",
                               new_save |->
                                 [friendly_name |->
                                    IF friendly_name.some
                                    THEN friendly_name.val ELSE "",
                                  save_path |-> path,
                                  backup_path |-> backup_pathbuf.val,
                                  uuid |-> uuid,
                                  user_id |-> local_user.id],
                               files |-> list,
                               i |-> 1,
                               untracked |-> ~does_save_exist(saves, path),
                               regular |-> {f \in DOMAIN disk :
                                              /\ IsFile(disk, f)
                                              /\ IsPrefix(path, f)}]
                     /\ pc' = "c_copy"
                     /\ result' = NoResult

\* the existence check, the UUID, the NewSave and the crawl
create_save_begin(path, friendly_name) ==
    /\ pc = "idle"
    /\ raced' = FALSE
    /\ UNCHANGED <<disk, saves, files, del, upd, budget, mapIn, mapOut, ext>>
    /\ IF ~Exists(disk, path)
       THEN /\ Finish([op |-> "create", status |-> "Err", at |-> "exists",
                       path |-> path])
            /\ UNCHANGED uuids
       ELSE LET uuid == UuidNames[uuids + 1]
                backup_pathbuf == create_backup_path(path, uuid)
            IN  /\ uuids' = uuids + 1
                /\ IF ~backup_pathbuf.some
                   THEN Finish([op |-> "create", status |-> "Err",
                                at |-> "backup_path", path |-> path])
                   ELSE \E list \in crawl(disk, path) :
                          /\ cr' = [op |-> "create",
                                    new_save |->
                                      [friendly_name |->
                                         IF friendly_name.some
                                         THEN friendly_name.val ELSE "",
                                       save_path |-> path,
                                       backup_path |-> backup_pathbuf.val,
                                       uuid |-> uuid,
                                       user_id |-> local_user.id],
                                    files |-> list,
                                    i |-> 1,
                                    untracked |-> ~does_save_exist(saves, path),
                                    regular |-> {f \in DOMAIN disk :
                                                   /\ IsFile(disk, f)
                                                   /\ IsPrefix(path, f)}]
                          /\ pc' = "c_copy"
                          /\ result' = NoResult

\* copy_save_files without the `?`: a failed copy is ignored
create_save_copy_ignoring_errors ==
    /\ pc = "c_copy"
    /\ UNCHANGED <<saves, files, del, upd, uuids, budget, raced, mapIn, mapOut, ext>>
    /\ IF cr.i > Len(cr.files)
       THEN /\ pc' = "c_commit"
            /\ UNCHANGED <<disk, cr, result>>
       ELSE \E io_fault \in BOOLEAN :
            LET r == copy_file_to_backup_dir(disk, cr.new_save.backup_path,
                                             cr.files[cr.i], io_fault)
            IN  /\ disk' = r.disk
                /\ cr' = [cr EXCEPT !.i = @ + 1]
                /\ UNCHANGED <<pc, result>>

\* copy_save_files: one crawled entry per step; the first failure returns
create_save_copy ==
    /\ pc = "c_copy"
    /\ UNCHANGED <<saves, files, del, upd, uuids, budget, raced, mapIn, mapOut, ext>>
    /\ IF cr.i > Len(cr.files)
       THEN /\ pc' = "c_commit"
            /\ UNCHANGED <<disk, cr, result>>
       ELSE \E io_fault \in BOOLEAN :
            LET r == copy_file_to_backup_dir(disk, cr.new_save.backup_path,
                                             cr.files[cr.i], io_fault)
            IN  /\ disk' = r.disk
                /\ IF r.ok
                   THEN /\ cr' = [cr EXCEPT !.i = @ + 1]
                        /\ UNCHANGED <<pc, result>>
                   ELSE Finish([op |-> "create", status |-> "Err", at |-> "copy",
                                path |-> cr.new_save.save_path,
                                uuid |-> cr.new_save.uuid, copied |-> cr.i - 1])

\* db.create_save, db.get_save by uuid, then a File row per regular file
create_save_commit ==
    /\ pc = "c_commit"
    /\ UNCHANGED <<disk, del, upd, uuids, budget, raced, mapIn, mapOut, ext>>
    /\ LET S1 == Database_create_save(saves, cr.new_save)
           query == [SaveQuery EXCEPT !.uuid = Some(cr.new_save.uuid)]
           save == get_save(S1, query)
           r == create_files(files, disk, save.val, cr.files)
           done == [op |-> "create", path |-> cr.new_save.save_path,
                    uuid |-> cr.new_save.uuid, untracked |-> cr.untracked,
                    regular |-> cr.regular, raced |-> raced]
       IN  /\ saves' = S1
           /\ IF save.kind # "some"
              THEN /\ files' = files
                   /\ Finish(done @@ [status |-> "Err", at |-> "get_save"])
              ELSE /\ files' = r.files
                   /\ Finish(done @@ [status |-> IF r.ok THEN "Ok" ELSE "Err",
                                      at |-> "create_file"])


(***************************************************************************)
(* Archive::delete_save, in its steps.                                     *)
(***************************************************************************)
\* the parent of the backup path and the rows db.get_files returns
delete_save_begin(save) ==
    /\ pc = "idle"
    /\ save \in saves
    /\ raced' = FALSE
    /\ UNCHANGED <<disk, saves, files, cr, upd, uuids, budget, mapIn, mapOut, ext>>
    /\ LET backup_path == Parent(save.backup_path)
           option == get_files(files, [FileQuery EXCEPT !.save_id = Some(save.id)])
       IN  IF ~backup_path.some
           THEN Finish([op |-> "delete", status |-> "Err", at |-> "parent",
                        save |-> save])
           ELSE /\ del' = [op |-> "delete", save |-> save,
                           backup_path |-> backup_path.val,
                           todo |-> IF option.some THEN option.val ELSE <<>>,
                           rows |-> IF option.some THEN Len(option.val) ELSE 0]
                /\ pc' = IF option.some THEN "d_files" ELSE "d_save"
                /\ result' = NoResult

\* db.delete_file by id, one row per step
delete_save_file ==
    /\ pc = "d_files"
    /\ files' = Database_delete_file(files,
                    [FileQuery EXCEPT !.id = Some(Head(del.todo).id)])
    /\ del' = [del EXCEPT !.todo = Tail(@)]
    /\ pc' = IF Tail(del.todo) = <<>> THEN "d_save" ELSE "d_files"
    /\ UNCHANGED <<disk, saves, cr, upd, result, uuids, budget, raced,
                   mapIn, mapOut, ext>>

\* the order swapped: the UUID directory is removed before db.delete_save
delete_save_row_after_disk ==
    /\ pc = "d_save"
    /\ disk' = RemoveDirAll(disk, del.backup_path)
    /\ pc' = "d_disk"
    /\ UNCHANGED <<saves, files, cr, del, upd, result, uuids, budget, raced,
                   mapIn, mapOut, ext>>

\* db.delete_save by id
delete_save_row ==
    /\ pc = "d_save"
    /\ saves' = Database_delete_save(saves,
                    [SaveQuery EXCEPT !.id = Some(del.save.id)])
    /\ pc' = "d_disk"
    /\ UNCHANGED <<disk, files, cr, del, upd, result, uuids, budget, raced,
                   mapIn, mapOut, ext>>

\* fs::remove_dir_all of the UUID directory
delete_save_disk ==
    /\ pc = "d_disk"
    /\ UNCHANGED <<saves, files, uuids, budget, raced, mapIn, mapOut, ext>>
    /\ \E io_fault \in BOOLEAN :
       IF io_fault \/ ~RemoveDirAllOk(disk, del.backup_path)
       THEN /\ disk' = disk
            /\ Finish([op |-> "delete", status |-> "Err", at |-> "remove_dir_all",
                       save |-> del.save])
       ELSE /\ disk' = RemoveDirAll(disk, del.backup_path)
            /\ Finish([op |-> "delete", status |-> "Ok", at |-> "end",
                       save |-> del.save])

(***************************************************************************)
(* Archive::check_save and Archive::update_save.                           *)
(***************************************************************************)
\* check_save that deletes the File rows it reports Missing, as update_save
\* does
check_save_call_deleting_missing(save) ==
    /\ pc = "idle"
    /\ save \in saves
    /\ raced' = FALSE
    /\ UNCHANGED <<disk, saves, uuids, budget, mapIn, mapOut, ext>>
    /\ \E current \in crawl(disk, save.save_path) :
         LET r == check_save(files, disk, save, current)
         IN  /\ files' = {f \in files :
                            \A k \in 1..Len(r.changes) :
                              r.changes[k].change = "Missing"
                                => r.changes[k].path # f.file_path}
             /\ Finish([op |-> "check", status |-> IF r.ok THEN "Ok" ELSE "Err",
                        at |-> "check", save |-> save, changes |-> r.changes])

check_save_call(save) ==
    /\ pc = "idle"
    /\ save \in saves
    /\ raced' = FALSE
    /\ UNCHANGED <<disk, saves, files, uuids, budget, mapIn, mapOut, ext>>
    /\ \E current \in crawl(disk, save.save_path) :
         LET r == check_save(files, disk, save, current)
         IN  Finish([op |-> "check", status |-> IF r.ok THEN "Ok" ELSE "Err",
                     at |-> "check", save |-> save, changes |-> r.changes])

UpdateDone(status, at) ==
    [op |-> "update", status |-> status, at |-> at, save |-> upd.save,
     changes |-> upd.changes, i |-> upd.i, wrote |-> upd.wrote,
     clean |-> upd.clean, raced |-> raced, pre |-> upd.pre]

\* check_save, and the early return when nothing changed
update_save_begin(save) ==
    /\ pc = "idle"
    /\ save \in saves
    /\ raced' = FALSE
    /\ UNCHANGED <<disk, saves, files, cr, del, uuids, budget, mapIn, mapOut, ext>>
    /\ \E current \in crawl(disk, save.save_path) :
         LET r == check_save(files, disk, save, current)
             clean == \A f \in files :
                        f.save_id = save.id =>
                          LET b == get_backup_path(f.file_path, save.backup_path)
                          IN  /\ b.some
                              /\ IsFile(disk, b.val)
                              /\ Digest(disk[b.val].bytes) = f.file_hash
             pre == [files |-> files, backup |-> BackupSide(disk)]
         IN  IF ~r.ok
             THEN Finish([op |-> "update", status |-> "Err", at |-> "check",
                          save |-> save, changes |-> <<>>, i |-> 1, wrote |-> {},
                          clean |-> clean, raced |-> FALSE, pre |-> pre])
             ELSE IF r.changes = <<>>
             THEN Finish([op |-> "update", status |-> "OkNone", at |-> "check",
                          save |-> save, changes |-> <<>>, i |-> 1, wrote |-> {},
                          clean |-> clean, raced |-> FALSE, pre |-> pre])
             ELSE /\ upd' = [op |-> "update", save |-> save, changes |-> r.changes,
                             i |-> 1, wrote |-> {}, clean |-> clean, pre |-> pre]
                  /\ pc' = "u_apply"
                  /\ result' = NoResult

\* the end of one iteration of the loop over the changes
UpdateAdvance(wrote) ==
    IF upd.i = Len(upd.changes)
    THEN Finish([UpdateDone("Ok", "end") EXCEPT !.i = upd.i + 1, !.wrote = wrote])
    ELSE /\ upd' = [upd EXCEPT !.i = @ + 1, !.wrote = wrote]
         /\ pc' = "u_apply"
         /\ UNCHANGED result

\* the `?` dropped from the calls of the loop: a failed removal or copy does
\* not end the update
update_save_apply_ignoring_errors ==
    /\ pc = "u_apply"
    /\ UNCHANGED <<saves, cr, del, uuids, budget, raced, mapIn, mapOut, ext>>
    /\ \E io_fault \in BOOLEAN :
       LET log == upd.changes[upd.i]
           file_path == log.path
       IN  IF log.change = "Missing"
           THEN LET backup_path == get_backup_path(file_path, upd.save.backup_path)
                IN  /\ files' = Database_delete_file(files,
                                    [FileQuery EXCEPT !.path = Some(file_path)])
                    /\ disk' = IF ~backup_path.some \/ io_fault
                                  \/ ~RemoveFileOk(disk, backup_path.val)
                               THEN disk
                               ELSE RemoveFile(disk, backup_path.val)
                    /\ UpdateAdvance(upd.wrote)
           ELSE LET r == copy_file_to_backup_dir(disk, upd.save.backup_path,
                                                 file_path, io_fault)
                IN  /\ disk' = r.disk
                    /\ files' = files
                    /\ IF r.ok
                       THEN /\ pc' = "u_record"
                            /\ UNCHANGED <<upd, result>>
                       ELSE UpdateAdvance(upd.wrote)

\* one change: Missing deletes the row and the backup file; New and Update
\* copy the live file into the backup
update_save_apply ==
    /\ pc = "u_apply"
    /\ UNCHANGED <<saves, cr, del, uuids, budget, raced, mapIn, mapOut, ext>>
    /\ \E io_fault \in BOOLEAN :
       LET log == upd.changes[upd.i]
           file_path == log.path
       IN  IF log.change = "Missing"
           THEN LET backup_path == get_backup_path(file_path, upd.save.backup_path)
                IN  /\ files' = Database_delete_file(files,
                                    [FileQuery EXCEPT !.path = Some(file_path)])
                    /\ IF ~backup_path.some \/ io_fault
                          \/ ~RemoveFileOk(disk, backup_path.val)
                       THEN /\ disk' = disk
                            /\ Finish(UpdateDone("Err", "remove_file"))
                       ELSE /\ disk' = RemoveFile(disk, backup_path.val)
                            /\ UpdateAdvance(upd.wrote)
           ELSE LET r == copy_file_to_backup_dir(disk, upd.save.backup_path,
                                                 file_path, io_fault)
                IN  /\ disk' = r.disk
                    /\ files' = files
                    /\ IF r.ok
                       THEN /\ pc' = "u_record"
                            /\ UNCHANGED <<upd, result>>
                       ELSE Finish(UpdateDone("Err", "copy"))

\* create_file (New) or update_file (Update) after the copy: hash the live
\* file and write the row
update_save_record ==
    /\ pc = "u_record"
    /\ UNCHANGED <<disk, saves, cr, del, uuids, budget, raced, mapIn, mapOut, ext>>
    /\ LET log == upd.changes[upd.i]
           r == IF log.change = "New"
                THEN Archive_create_file(files, disk, upd.save, log.path)
                ELSE Archive_update_file(files, disk, log.path)
       IN  /\ files' = r.files
           /\ IF r.ok
              THEN UpdateAdvance(upd.wrote \cup {log.path})
              ELSE Finish(UpdateDone("Err", "hash"))

(***************************************************************************)
(* The process is killed in the middle of an operation.                    *)
(***************************************************************************)
Interrupt ==
    /\ pc # "idle"
    /\ Finish([op |-> IF cr # Idle THEN "create"
                      ELSE IF del # Idle THEN "delete" ELSE "update",
               status |-> "Killed", at |-> pc,
               loc |-> IF cr # Idle THEN cr ELSE IF del # Idle THEN del ELSE upd])
    /\ budget < MaxEvents
    /\ budget' = budget + 1
    /\ UNCHANGED <<disk, saves, files, uuids, raced, mapIn, mapOut, ext>>

(***************************************************************************)
(* Direct calls of the Database API.                                       *)
(***************************************************************************)
\* Database::create_file with a row for a save of the store
Db_create_file(save, path, hash) ==
    /\ pc = "idle"
    /\ budget < MaxEvents
    /\ save \in saves
    /\ files' = Database_create_file(files,
                    [file_path |-> path, file_hash |-> hash, save_id |-> save.id])
    /\ files' # files
    /\ budget' = budget + 1
    /\ result' = NoResult
    /\ UNCHANGED <<disk, saves, pc, cr, del, upd, uuids, raced,
                   mapIn, mapOut, ext>>

\* the NewSave rows a caller of the Database API hands to create_save
NewSaves ==
    {[friendly_name |-> "", save_path |-> path,
      backup_path |-> create_backup_path(path, "ux").val, uuid |-> "ux",
      user_id |-> local_user.id] : path \in Roots}

\* Database::create_save with a NewSave
Db_create_save(new_save) ==
    /\ pc = "idle"
    /\ budget < MaxEvents
    /\ saves' = Database_create_save(saves, new_save)
    /\ budget' = budget + 1
    /\ result' = [op |-> "db_create_save", status |-> "Ok", new_save |-> new_save,
                  existed |-> does_save_exist(saves, new_save.save_path)]
    /\ UNCHANGED <<disk, files, pc, cr, del, upd, uuids, raced,
                   mapIn, mapOut, ext>>

\* Database::update_save with an EditSave
Db_update_save(save, friendly_name, save_path) ==
    /\ pc = "idle"
    /\ budget < MaxEvents
    /\ save \in saves
    /\ saves' = Database_update_save(saves,
                    [id |-> save.id, friendly_name |-> friendly_name,
                     save_path |-> save_path])
    /\ saves' # saves
    /\ budget' = budget + 1
    /\ result' = NoResult
    /\ UNCHANGED <<disk, files, pc, cr, del, upd, uuids, raced,
                   mapIn, mapOut, ext>>

(***************************************************************************)
(* Other processes change the live tree.                                   *)
(***************************************************************************)
EnvStep(d) ==
    /\ budget < MaxEvents
    /\ disk' = d
    /\ budget' = budget + 1
    /\ raced' = (raced \/ pc # "idle")
    /\ result' = NoResult
    /\ UNCHANGED <<saves, files, pc, cr, del, upd, uuids,
                   mapIn, mapOut, ext>>

\* the trees another process can leave under Root1
LiveEntries == {[kind |-> "absent", bytes |-> <<>>], Dir} \cup {RegFile(b) : b \in Contents}
LiveTrees ==
    {[p \in {} |-> Dir]} \cup
    {[p \in {Root1} \cup {q \in LivePaths : e[q].kind # "absent"} |->
        IF p = Root1 THEN Dir ELSE e[p]]
     : e \in [LivePaths -> LiveEntries]}

IsLive(p) == IsPrefix(Root1, p)

\* the tree under Root1 becomes t
EnvSet(t) ==
    /\ [p \in {q \in DOMAIN disk : IsLive(q)} |-> disk[p]] # t
    /\ EnvStep([p \in {q \in DOMAIN disk : ~IsLive(q)} \cup DOMAIN t |->
                  IF p \in DOMAIN t THEN t[p] ELSE disk[p]])

Next ==
    \/ (uuids < MaxUuids /\ create_save_begin(Root1, None))
    \/ create_save_copy
    \/ create_save_commit
    \/ \E save \in saves : delete_save_begin(save)
    \/ delete_save_file
    \/ delete_save_row
    \/ delete_save_disk
    \/ \E save \in saves : check_save_call(save)
    \/ \E save \in saves : update_save_begin(save)
    \/ update_save_apply
    \/ update_save_record
    \/ Interrupt
    \/ \E save \in saves, path \in LivePaths, hash \in Digests :
         Db_create_file(save, path, hash)
    \/ \E t \in LiveTrees : EnvSet(t)

Spec == Init /\ [][Next]_vars

(***************************************************************************)
(* The store with two saves, friendly names and administrative edits; the  *)
(* live tree stays as it is.                                               *)
(***************************************************************************)
NextStore ==
    \/ (uuids < MaxSaves /\ \E path \in Roots, name \in FriendlyNames :
                               create_save_begin(path, name))
    \/ create_save_copy
    \/ create_save_commit
    \/ \E save \in saves : delete_save_begin(save)
    \/ delete_save_file
    \/ delete_save_row
    \/ delete_save_disk
    \/ \E save \in saves : update_save_begin(save)
    \/ update_save_apply
    \/ update_save_record
    \/ \E save \in saves, path \in LivePaths, hash \in Digests :
         Db_create_file(save, path, hash)
    \/ \E save \in saves, name \in FriendlyNames,
          path \in {None} \cup {Some(r) : r \in Roots} :
         Db_update_save(save, name, path)
    \/ \E new_save \in NewSaves : Db_create_save(new_save)

SpecStore == Init /\ [][NextStore]_vars

(***************************************************************************)
(* The backup path mapper alone: an original path, the save root it lies   *)
(* under (a prefix of it) and the name of the backup root are the inputs.  *)
(***************************************************************************)
Names == {"game", "sub", "f"}

RECURSIVE PathsOfLen(_)
PathsOfLen(n) ==
    IF n = 0 THEN {<<>>}
    ELSE {Append(p, c) : p \in PathsOfLen(n - 1), c \in Names}

MapInputs ==
    UNION {{[file_path |-> p, root |-> SubSeq(p, 1, k),
             backup_path |-> Join(Join(data_location, <<UuidNames[1]>>), <<name>>)]
            : k \in 1..Len(p), name \in Names}
           : p \in UNION {PathsOfLen(n) : n \in 1..MaxPathLen}}

InitMap ==
    /\ disk = [p \in {data_location} |-> Dir]
    /\ saves = {}
    /\ files = {}
    /\ pc = "idle"
    /\ cr = Idle
    /\ del = Idle
    /\ upd = Idle
    /\ result = NoResult
    /\ uuids = 0
    /\ budget = 0
    /\ raced = FALSE
    /\ mapIn \in MapInputs
    /\ mapOut = Idle
    /\ ExtIdle

get_backup_path_call ==
    /\ mapOut = Idle
    /\ mapOut' = [op |-> "map",
                  val |-> get_backup_path(mapIn.file_path, mapIn.backup_path)]
    /\ UNCHANGED <<disk, saves, files, pc, cr, del, upd, result, uuids, budget,
                   raced, mapIn, ext>>

NextMap == get_backup_path_call

SpecMap == InitMap /\ [][NextMap]_vars


(***************************************************************************)
(* Properties.                                                             *)
(***************************************************************************)
(***************************************************************************)
(* Functions called on their own: the workflow is idle, the store empty.   *)
(***************************************************************************)
StoreIdle ==
    /\ disk = [p \in {data_location} |-> Dir]
    /\ saves = {}
    /\ files = {}
    /\ pc = "idle"
    /\ cr = Idle
    /\ del = Idle
    /\ upd = Idle
    /\ result = NoResult
    /\ uuids = 0
    /\ budget = 0
    /\ raced = FALSE
    /\ mapIn = Idle
    /\ mapOut = Idle

ConfigIdle ==
    /\ users = {}
    /\ config = Config_default
    /\ cfg_file = None
    /\ lock = LockFree
    /\ thr = <<>>

\* the function returned val
Return(op, val) ==
    /\ callOut = Idle
    /\ callOut' = [op |-> op, val |-> val]
    /\ UNCHANGED <<disk, saves, files, pc, cr, del, upd, result, uuids, budget,
                   raced, mapIn, mapOut, users, config, cfg_file, lock, thr,
                   callIn>>

(***************************************************************************)
(* Archive::calc_hash alone: the bytes of the file are the input.          *)
(***************************************************************************)
ByteValues == {0, 7, 255}
MaxFileLen == 2 * ChunkSize

RECURSIVE BytesOfLen(_)
BytesOfLen(n) ==
    IF n = 0 THEN {<<>>}
    ELSE {Append(b, v) : b \in BytesOfLen(n - 1), v \in ByteValues}

InitHash ==
    /\ StoreIdle
    /\ ConfigIdle
    /\ callIn \in {[op |-> "calc_hash", bytes |-> b] :
                     b \in UNION {BytesOfLen(n) : n \in 0..MaxFileLen}}
    /\ callOut = Idle

calc_hash_call ==
    /\ callIn.op = "calc_hash"
    /\ Return("calc_hash", calc_hash(callIn.bytes))

NextHash == calc_hash_call

SpecHash == InitHash /\ [][NextHash]_vars

(***************************************************************************)
(* Archive::compress_directory and Archive::decompress_archive             *)
(* (src/archive.rs).  A tar stream is a sequence of tokens: the header of  *)
(* an entry (its path inside the archive, its kind, its size in n) and,    *)
(* after the header of a file, one data token per byte (the byte in n).    *)
(* The zstd frame is modelled as the run-length coding of the stream.      *)
(***************************************************************************)
TarHeader(path, kind, size) ==
    [header |-> TRUE, path |-> path, kind |-> kind, n |-> size]
TarData(byte) == [header |-> FALSE, path |-> <<>>, kind |-> "data", n |-> byte]

\* the walk listing the source and its direct entries only
tar_walk_flat(d, src) ==
    IF ~IsDir(d, src) THEN {<<src>>}
    ELSE {<<src>> \o list : list \in Orders(ReadDir(d, src))}

\* the walk of Builder::append_dir_all: a directory, then (in the order
\* read_dir lists them) each of its entries with everything beneath it
RECURSIVE tar_walk(_, _), tar_walk_list(_, _)
tar_walk(d, src) ==
    IF ~IsDir(d, src) THEN {<<src>>}
    ELSE UNION {{<<src>> \o r : r \in tar_walk_list(d, list)}
                : list \in Orders(ReadDir(d, src))}

tar_walk_list(d, list) ==
    IF list = <<>> THEN {<<>>}
    ELSE UNION {{s \o r : r \in tar_walk_list(d, Tail(list))}
                : s \in tar_walk(d, Head(list))}

\* Builder::append_dir_all(name, source): every walked entry under `name`
RECURSIVE append_dir_all(_, _, _, _)
append_dir_all(d, name, source, walk) ==
    IF walk = <<>> THEN <<>>
    ELSE LET src == Head(walk)
             dest == Join(<<name>>, StripPrefix(src, source).val)
             data == [i \in 1..Len(d[src].bytes) |-> TarData(d[src].bytes[i])]
         IN  <<TarHeader(dest, d[src].kind, Len(data))>> \o data
             \o append_dir_all(d, name, source, Tail(walk))

\* zstd::stream::Encoder: equal neighbours become one run
RECURSIVE zstd_encode(_)
zstd_encode(stream) ==
    IF stream = <<>> THEN <<>>
    ELSE LET rest == zstd_encode(Tail(stream))
         IN  IF rest # <<>> /\ Head(rest).v = Head(stream)
             THEN <<[v |-> Head(stream), n |-> Head(rest).n + 1]>> \o Tail(rest)
             ELSE <<[v |-> Head(stream), n |-> 1]>> \o rest

\* zstd::stream::Decoder
RECURSIVE zstd_decode(_)
zstd_decode(frame) ==
    IF frame = <<>> THEN <<>>
    ELSE [i \in 1..Head(frame).n |-> Head(frame).v] \o zstd_decode(Tail(frame))

\* tar::Archive::unpack(dst) over the entries of the stream: a directory is
\* created with its ancestors, a file is written over what its path held
RECURSIVE unpack_entries(_, _, _)
unpack_entries(d, dst, stream) ==
    IF stream = <<>> THEN [ok |-> TRUE, disk |-> d]
    ELSE LET h == Head(stream)
             data == SubSeq(stream, 2, h.n + 1)
             rest == SubSeq(stream, h.n + 2, Len(stream))
             to == Join(dst, h.path)
         IN  IF ~h.header THEN [ok |-> FALSE, disk |-> d]
             ELSE IF h.kind = "dir" THEN
                 IF CreateDirAllOk(d, to)
                 THEN unpack_entries(CreateDirAll(d, to), dst, rest)
                 ELSE [ok |-> FALSE, disk |-> d]
             ELSE IF Len(stream) < h.n + 1 \/ ~CreateDirAllOk(d, Parent(to).val)
                     \/ IsDir(d, to)
                 THEN [ok |-> FALSE, disk |-> d]
             ELSE unpack_entries(
                     Put(CreateDirAll(d, Parent(to).val), to,
                         RegFile([i \in 1..Len(data) |-> data[i].n])),
                     dst, rest)

\* tar::Archive::unpack(dst): dst is created when it is not there
unpack(d, dst, stream) ==
    IF ~CreateDirAllOk(d, dst) THEN [ok |-> FALSE, disk |-> d]
    ELSE unpack_entries(CreateDirAll(d, dst), dst, stream)

\* the directory compressed, the archive written, the directory unpacked into
TarSource == Root1
TarArchive == <<"home", "game.tar.zst">>
TarTarget == <<"home", "copy">>
SubDir == Root1 \o <<"d">>
Nested == SubDir \o <<"e">>

\* the source directory: a file, a subdirectory, an entry of the subdirectory
TarTrees ==
    {[p \in {TarSource} \cup {q \in {FileA, SubDir, Nested} : e[q].kind # "absent"} |->
        IF p = TarSource THEN Dir ELSE e[p]]
     : e \in {x \in [{FileA, SubDir, Nested} -> LiveEntries] :
                /\ x[FileA].kind # "dir"
                /\ x[SubDir].kind \in {"absent", "dir"}
                /\ x[SubDir].kind = "absent" => x[Nested].kind = "absent"}}

\* the target: not there, an empty directory, a directory of something else
TarTargets ==
    {[p \in {} |-> Dir], [p \in {TarTarget} |-> Dir],
     [p \in {TarTarget, TarTarget \o <<"other">>} |->
        IF p = TarTarget THEN Dir ELSE RegFile(Bytes1)]}

InitTar ==
    /\ disk \in {[p \in {data_location} \cup DOMAIN t \cup DOMAIN u |->
                    IF p \in DOMAIN t THEN t[p]
                    ELSE IF p \in DOMAIN u THEN u[p] ELSE Dir]
                 : t \in TarTrees, u \in TarTargets}
    /\ saves = {}
    /\ files = {}
    /\ pc = "idle"
    /\ cr = Idle
    /\ del = Idle
    /\ upd = Idle
    /\ result = NoResult
    /\ uuids = 0
    /\ budget = 0
    /\ raced = FALSE
    /\ mapIn = Idle
    /\ mapOut = Idle
    /\ ConfigIdle
    /\ callIn = [op |-> "tar", source |-> TarSource, archive |-> TarArchive,
                 target |-> TarTarget]
    /\ callOut = Idle

TarReturn(op, d, ok, io_fault) ==
    /\ disk' = d
    /\ callOut' = [op |-> op, val |-> IF ok THEN "ok" ELSE "err",
                   io_fault |-> io_fault]
    /\ UNCHANGED <<saves, files, pc, cr, del, upd, result, uuids, budget,
                   raced, mapIn, mapOut, users, config, cfg_file, lock, thr,
                   callIn>>

\* Archive::compress_directory(source, target): the archive file is created
\* first; an I/O error while appending leaves it without content
compress_directory(source, target) ==
    /\ callOut = Idle
    /\ \E io_fault \in BOOLEAN :
         LET base_name == FileName(source)
             created == Put(disk, target, RegFile(<<>>))
         IN  IF ~IsDir(disk, Parent(target).val) \/ IsDir(disk, target)
             THEN TarReturn("compress_directory", disk, FALSE, io_fault)
             ELSE IF ~base_name.some \/ io_fault \/ ~IsDir(disk, source)
             THEN TarReturn("compress_directory", created, FALSE, io_fault)
             ELSE \E walk \in tar_walk(created, source) :
                    TarReturn("compress_directory",
                              Put(disk, target,
                                  RegFile(zstd_encode(
                                      append_dir_all(created, base_name.val,
                                                     source, walk)))),
                              TRUE, io_fault)

\* Archive::decompress_archive(source, target), called once the archive is
\* written: File::open fails on an I/O error
decompress_archive(source, target) ==
    /\ callOut.op = "compress_directory"
    /\ callOut.val = "ok"
    /\ \E io_fault \in BOOLEAN :
         IF io_fault \/ ~IsFile(disk, source)
         THEN TarReturn("decompress_archive", disk, FALSE, io_fault)
         ELSE LET r == unpack(disk, target, zstd_decode(disk[source].bytes))
              IN  TarReturn("decompress_archive", r.disk, r.ok, io_fault)

NextTar ==
    \/ compress_directory(callIn.source, callIn.archive)
    \/ decompress_archive(callIn.archive, callIn.target)

SpecTar == InitTar /\ [][NextTar]_vars

(***************************************************************************)
(* Users (src/database.rs) and the resolution of the local user            *)
(* (cli/src/main.rs), run by the add and list commands on the main thread. *)
(* A command takes a read guard of CONFIG first and keeps it until it      *)
(* returns.                                                                *)
(***************************************************************************)
UserNames == {"Default", "alice", "bob"}
MaxUsers == 3

\* UserQuery::new()
UserQuery == [id |-> None, username |-> None]
NoUser == [id |-> 0, username |-> ""]

does_user_exist(U, uname) == \E r \in U : r.username = uname

Database_create_user(U, user) ==
    IF ~does_user_exist(U, user.username)
    THEN U \cup {[id |-> NextId(U), username |-> user.username]}
    ELSE U

\* the if / else-if of get_user: id, username
get_user(U, query) ==
    OneOf(IF query.id.some THEN {r \in U : r.id = query.id.val}
          ELSE IF query.username.some
               THEN {r \in U : r.username = query.username.val}
          ELSE {})

\* None when the table is empty
get_all_users(U) == IF U = {} THEN None ELSE Some(ById(U))

Database_delete_user(U, query) ==
    IF query.id.some THEN {r \in U : r.id # query.id.val}
    ELSE IF query.username.some
         THEN {r \in U : r.username # query.username.val}
    ELSE U

\* the guards of CONFIG a thread holds
HoldsRead(t) == InSeq(t, lock.readers)
ReadLock(t) == [lock EXCEPT !.readers = Append(@, t)]
ReadUnlock(t) == [lock EXCEPT !.readers = SelectSeq(@, LAMBDA x : x # t)]
\* CONFIG.write() gets the lock at once
CanWrite == lock.writer = "none" /\ lock.readers = <<>>

InitUser ==
    /\ StoreIdle
    /\ users = {}
    /\ config = Config_default
    /\ cfg_file = None
    /\ lock = LockFree
    /\ thr = [t \in {"main"} |-> [pc |-> "start", cmd |-> "none"]]
    /\ callIn = Idle
    /\ callOut = Idle

UserStep ==
    UNCHANGED <<disk, saves, files, pc, cr, del, upd, result, uuids,
                raced, mapIn, mapOut>>

\* Database::create_user, called before the command runs
Db_create_user(username) ==
    /\ thr["main"].pc = "start"
    /\ Cardinality(users) < MaxUsers
    /\ ~does_user_exist(users, username)
    /\ users' = Database_create_user(users, [username |-> username])
    /\ UserStep
    /\ UNCHANGED <<budget, config, cfg_file, lock, thr, callIn, callOut>>

\* Database::delete_user, called before the command runs
Db_delete_user(username) ==
    /\ thr["main"].pc = "start"
    /\ budget < MaxEvents
    /\ does_user_exist(users, username)
    /\ users' = Database_delete_user(users,
                                     [UserQuery EXCEPT !.username = Some(username)])
    /\ budget' = budget + 1
    /\ UserStep
    /\ UNCHANGED <<config, cfg_file, lock, thr, callIn, callOut>>

\* add_save and list_tracked_saves up to their call of get_local_user:
\* Config::static_config() hands out the read guard `config`
command_begin(cmd) ==
    /\ thr["main"].pc = "start"
    /\ lock.writer = "none"
    /\ lock' = ReadLock("main")
    /\ thr' = [thr EXCEPT !["main"] = [pc |-> "get_local_user", cmd |-> cmd]]
    /\ callIn' = [op |-> "get_local_user", username |-> config.local_username,
                  users |-> users, config |-> config, cfg_file |-> cfg_file]
    /\ UserStep
    /\ UNCHANGED <<budget, users, config, cfg_file, callOut>>

\* get_local_user is over: it returned, panicked (the unwinding drops the
\* guard of the command) or waits for the lock
Resolved(kind, user) ==
    /\ callOut' = [op |-> "get_local_user", kind |-> kind, user |-> user]
    /\ thr' = [thr EXCEPT !["main"].pc = kind]
    /\ lock' = IF kind \in {"todo_panic", "write_panic", "query_panic"}
               THEN ReadUnlock("main") ELSE lock

\* users.len() >= 1
at_least_one(list) == Len(list) >= 1

\* users.len() == 1
only_one(list) == Len(list) = 1

\* get_local_user: the lookup by username, the first-run branch and the
\* choice between the transfer and todo!()
get_local_user_lookup ==
    /\ thr["main"].pc = "get_local_user"
    /\ LET username == callIn.username
           query == [UserQuery EXCEPT !.username = Some(username)]
           option == get_user(users, query)
           potential_users == get_all_users(users)
           created == Database_create_user(users, [username |-> username])
       IN  IF option.kind = "panic"
           THEN Resolved("query_panic", NoUser) /\ UNCHANGED users
           ELSE IF option.kind = "some"
           THEN Resolved("returned", option.val) /\ UNCHANGED users
           ELSE IF ~potential_users.some
           THEN /\ users' = created
                /\ Resolved("returned", get_user(created, query).val)
           ELSE IF only_one(potential_users.val)
           THEN /\ thr' = [thr EXCEPT !["main"].pc = "transfer"]
                /\ UNCHANGED <<users, lock, callOut>>
           ELSE Resolved("todo_panic", NoUser) /\ UNCHANGED users
    /\ UserStep
    /\ UNCHANGED <<budget, config, cfg_file, callIn>>

\* get_local_user, the transfer: Config::update takes the write lock of
\* CONFIG; with a read guard out, RwLock::write blocks for ever or panics.
\* The result of write_to_file is dropped
get_local_user_transfer ==
    /\ thr["main"].pc = "transfer"
    /\ LET new_default_user == Head(get_all_users(users).val)
           new_config == [config EXCEPT !.local_username = new_default_user.username]
       IN  IF ~CanWrite
           THEN /\ \E outcome \in {"write_deadlock", "write_panic"} :
                     Resolved(outcome, NoUser)
                /\ UNCHANGED <<config, cfg_file>>
           ELSE /\ config' = new_config
                /\ \E io_fault \in BOOLEAN :
                     cfg_file' = IF io_fault THEN cfg_file ELSE Some(new_config)
                /\ Resolved("returned", new_default_user)
    /\ UserStep
    /\ UNCHANGED <<budget, users, callIn>>

\* the command goes on with the User and ends: the guard is dropped
command_end ==
    /\ thr["main"].pc = "returned"
    /\ lock' = ReadUnlock("main")
    /\ thr' = [thr EXCEPT !["main"].pc = "exit"]
    /\ UserStep
    /\ UNCHANGED <<budget, users, config, cfg_file, callIn, callOut>>

NextUser ==
    \/ \E username \in UserNames : Db_create_user(username)
    \/ \E username \in UserNames : Db_delete_user(username)
    \/ command_begin("add")
    \/ command_begin("list")
    \/ get_local_user_lookup
    \/ get_local_user_transfer
    \/ command_end

SpecUser == InitUser /\ [][NextUser]_vars

(***************************************************************************)
(* Archive::crawl alone, with I/O errors: `unreadable` are the directories *)
(* fs::read_dir fails on, `broken` the entries for which the iterator of   *)
(* read_dir yields an Err.  An outcome is the vector returned or a panic.  *)
(***************************************************************************)
Crawled(val) == [kind |-> "ok", val |-> val]
CrawlPanic == [kind |-> "panic", val |-> <<>>]

RECURSIVE crawl_io(_, _, _, _), crawl_io_list(_, _, _, _)
\* the loop over `valid`: entry.unwrap() panics on a broken entry
crawl_io_list(d, list, unreadable, broken) ==
    IF list = <<>> THEN {Crawled(<<>>)}
    ELSE LET path == Head(list)
             sub == IF IsDir(d, path) THEN crawl_io(d, path, unreadable, broken)
                    ELSE {Crawled(<<>>)}
         IN  IF path \in broken THEN {CrawlPanic}
             ELSE UNION {IF s.kind = "panic" THEN {CrawlPanic}
                         ELSE {IF r.kind = "panic" THEN CrawlPanic
                               ELSE Crawled(s.val \o <<path>> \o r.val)
                               : r \in crawl_io_list(d, Tail(list), unreadable, broken)}
                         : s \in sub}

\* crawl pushing the directory it was called on as well
crawl_io_with_root(d, path, unreadable, broken) ==
    IF ~IsDir(d, path) \/ path \in unreadable THEN {Crawled(<<>>)}
    ELSE {IF o.kind = "panic" THEN o ELSE Crawled(o.val \o <<path>>)
          : o \in UNION {crawl_io_list(d, list, unreadable, broken)
                         : list \in Orders(ReadDir(d, path))}}

\* Archive::crawl: Err(_) => files
crawl_io(d, path, unreadable, broken) ==
    IF ~IsDir(d, path) \/ path \in unreadable THEN {Crawled(<<>>)}
    ELSE UNION {crawl_io_list(d, list, unreadable, broken)
                : list \in Orders(ReadDir(d, path))}

\* the root is not there, is a file, or is a directory tree
CrawlTrees == {[p \in {} |-> Dir], [p \in {Root1} |-> RegFile(Bytes1)]} \cup TarTrees

InitCrawl ==
    /\ \E t \in CrawlTrees :
         /\ disk = [p \in {data_location} \cup DOMAIN t |->
                      IF p \in DOMAIN t THEN t[p] ELSE Dir]
         /\ \E unreadable \in SUBSET {p \in DOMAIN t : t[p].kind = "dir"},
               broken \in SUBSET (DOMAIN t \ {Root1}) :
              callIn = [op |-> "crawl", path |-> Root1,
                        unreadable |-> unreadable, broken |-> broken]
    /\ saves = {}
    /\ files = {}
    /\ pc = "idle"
    /\ cr = Idle
    /\ del = Idle
    /\ upd = Idle
    /\ result = NoResult
    /\ uuids = 0
    /\ budget = 0
    /\ raced = FALSE
    /\ mapIn = Idle
    /\ mapOut = Idle
    /\ ConfigIdle
    /\ callOut = Idle

crawl_call ==
    /\ callIn.op = "crawl"
    /\ callOut = Idle
    /\ \E outcome \in crawl_io(disk, callIn.path, callIn.unreadable, callIn.broken) :
         callOut' = [op |-> "crawl", kind |-> outcome.kind, val |-> outcome.val]
    /\ UNCHANGED <<disk, saves, files, pc, cr, del, upd, result, uuids, budget,
                   raced, mapIn, mapOut, users, config, cfg_file, lock, thr,
                   callIn>>

NextCrawl == crawl_call

SpecCrawl == InitCrawl /\ [][NextCrawl]_vars

(***************************************************************************)
(* The configuration singleton under threads (src/config.rs): each thread  *)
(* replaces CONFIG, by Config::update or by ConfigManager::load_from_file  *)
(* of its own settings file, and then reads it with static_config, as the  *)
(* tests of config.rs do when the test harness runs them side by side.     *)
(***************************************************************************)
ConfigThreads == {"t1", "t2"}

\* the `expected` values of the tests
TestConfigs ==
    {[db_location |-> <<"new_db_location">>, data_location |-> <<"new_data_location">>,
      xxhash_seed |-> seed, local_username |-> name]
     : seed \in {1, 2}, name \in {"SomeUser", "Default"}}

\* toml::to_string: the table of the four keys, in the order of the struct
toml_to_string(c) ==
    <<<<"db_location", c.db_location>>, <<"data_location", c.data_location>>,
      <<"xxhash_seed", c.xxhash_seed>>, <<"local_username", c.local_username>>>>

\* toml::from_slice: the value of each key of the struct
toml_value(toml, key) == (CHOOSE i \in 1..Len(toml) : toml[i][1] = key)
toml_from_slice(toml) ==
    [db_location |-> toml[toml_value(toml, "db_location")][2],
     data_location |-> toml[toml_value(toml, "data_location")][2],
     xxhash_seed |-> toml[toml_value(toml, "xxhash_seed")][2],
     local_username |-> toml[toml_value(toml, "local_username")][2]]

InitConfig ==
    /\ StoreIdle
    /\ users = {}
    /\ config = Config_default
    /\ cfg_file = None
    /\ lock = LockFree
    /\ thr \in [ConfigThreads ->
                  {[pc |-> "start", op |-> op, expected |-> c,
                    file |-> toml_to_string(c), actual |-> None]
                   : op \in {"update", "load_from_file"}, c \in TestConfigs}]
    /\ callIn = Idle
    /\ callOut = Idle

ConfigStep ==
    UNCHANGED <<disk, saves, files, pc, cr, del, upd, result, uuids, budget,
                raced, mapIn, mapOut, users, cfg_file, callIn, callOut>>

\* Config::update(expected): the write guard is taken, the value stored, the
\* guard dropped
Config_update(t) ==
    /\ thr[t].pc = "start"
    /\ thr[t].op = "update"
    /\ CanWrite
    /\ config' = thr[t].expected
    /\ thr' = [thr EXCEPT ![t].pc = "updated"]
    /\ ConfigStep
    /\ UNCHANGED lock

\* ConfigManager::load_from_file: File::open, read_to_end, toml::from_slice,
\* Config::update
load_from_file(t) ==
    /\ thr[t].pc = "start"
    /\ thr[t].op = "load_from_file"
    /\ \E io_fault \in BOOLEAN :
         IF io_fault
         THEN /\ thr' = [thr EXCEPT ![t].pc = "error"]
              /\ UNCHANGED config
         ELSE /\ CanWrite
              /\ config' = toml_from_slice(thr[t].file)
              /\ thr' = [thr EXCEPT ![t].pc = "updated"]
    /\ ConfigStep
    /\ UNCHANGED lock

\* Config::static_config(): the read guard, and the value seen through it
static_config(t) ==
    /\ thr[t].pc = "updated"
    /\ lock.writer = "none"
    /\ lock' = ReadLock(t)
    /\ thr' = [thr EXCEPT ![t].pc = "reading", ![t].actual = Some(config)]
    /\ ConfigStep
    /\ UNCHANGED config

\* the guard goes out of scope
drop_guard(t) ==
    /\ thr[t].pc = "reading"
    /\ lock' = ReadUnlock(t)
    /\ thr' = [thr EXCEPT ![t].pc = "done"]
    /\ ConfigStep
    /\ UNCHANGED config

NextConfig ==
    \E t \in ConfigThreads :
      \/ Config_update(t)
      \/ load_from_file(t)
      \/ static_config(t)
      \/ drop_guard(t)

SpecConfig == InitConfig /\ [][NextConfig]_vars

(***************************************************************************)
(* Two invocations of the program call Database::create_save on one        *)
(* database file (src/database.rs): the query of does_save_exist and the   *)
(* insert are two statements, each atomic, with no transaction around      *)
(* them.                                                                   *)
(***************************************************************************)
Invocations == {"p1", "p2"}

\* the saves table of the migrations: according to the specification two
\* Saves may share a friendly name or an original path, so no row is refused
SavesTableAccepts(S, row) == TRUE

\* diesel::insert_into(saves::table).values(&save).execute(&conn)
insert_into_saves(S, save) ==
    S \cup {[id |-> NextId(S), friendly_name |-> save.friendly_name,
             save_path |-> save.save_path, backup_path |-> save.backup_path,
             uuid |-> save.uuid, user_id |-> save.user_id]}

\* the NewSave an invocation built: its own UUID, a path, a friendly name
NewSaveOf(p, path, friendly_name) ==
    [friendly_name |-> friendly_name, save_path |-> path,
     backup_path |-> create_backup_path(path, p).val, uuid |-> p,
     user_id |-> local_user.id]

InitRace ==
    /\ StoreIdle
    /\ users = {}
    /\ config = Config_default
    /\ cfg_file = None
    /\ lock = LockFree
    /\ thr \in [Invocations ->
                  {[pc |-> "start", path |-> path, friendly_name |-> name,
                    exists |-> FALSE]
                   : path \in Roots, name \in {"", "n"}}]
    /\ callIn = Idle
    /\ callOut = Idle

RaceStep ==
    UNCHANGED <<disk, files, pc, cr, del, upd, result, uuids, budget, raced,
                mapIn, mapOut, users, config, cfg_file, lock, callIn, callOut>>

\* create_save: if !self.does_save_exist(save.save_path)
create_save_check(p) ==
    /\ thr[p].pc = "start"
    /\ thr' = [thr EXCEPT ![p].pc = "checked",
                          ![p].exists = does_save_exist(saves, thr[p].path)]
    /\ UNCHANGED saves
    /\ RaceStep

\* create_save: the insert, or nothing when the path was found
create_save_insert(p) ==
    /\ thr[p].pc = "checked"
    /\ LET save == NewSaveOf(p, thr[p].path, thr[p].friendly_name)
       IN  IF thr[p].exists
           THEN /\ saves' = saves
                /\ thr' = [thr EXCEPT ![p].pc = "done"]
           ELSE IF SavesTableAccepts(saves, save)
           THEN /\ saves' = insert_into_saves(saves, save)
                /\ thr' = [thr EXCEPT ![p].pc = "done"]
           ELSE /\ saves' = saves
                /\ thr' = [thr EXCEPT ![p].pc = "panic"]
    /\ RaceStep

NextRace ==
    \E p \in Invocations :
      \/ create_save_check(p)
      \/ create_save_insert(p)

SpecRace == InitRace /\ [][NextRace]_vars

\* the backup-side path of an original path of a save
BackupOf(save, path) == get_backup_path(path, save.backup_path)

Copied(save, path) ==
    BackupOf(save, path).some /\ Exists(disk, BackupOf(save, path).val)

\* C1: from the start of create_save to the end of its copying no step
\* writes to saves or files (a failed or killed copy phase leaves the store
\* without a row of this create), and the step of create_save that writes
\* them is taken with every crawled entry copied into the backup location.
C1_StoreWrittenAfterCopies ==
    /\ [][(pc = "c_copy" \/ pc' = "c_copy") => (saves' = saves /\ files' = files)]_vars
    /\ [][(cr # Idle /\ (saves' # saves \/ files' # files)) =>
            /\ pc = "c_commit"
            /\ cr.i = Len(cr.files) + 1
            /\ \A k \in 1..Len(cr.files) : Copied(cr.new_save, cr.files[k])]_vars

\* C1 witness: a copy failed after an earlier entry was copied; the backup
\* holds the partial copy and the store has no row
C1_Witness ==
    /\ result.op = "create"
    /\ result.status = "Err"
    /\ result.at = "copy"
    /\ result.copied >= 1
    /\ Exists(disk, Join(data_location, <<result.uuid>>))
    /\ saves = {}
    /\ files = {}

\* C2: a create_save of an existing, untracked directory that got through
\* its copies returns Ok, and then the store holds one Save for the path, a
\* File row of that Save with the file's digest for every regular file under
\* it, and the backup holds an identical copy of each.
C2_CreateSucceeds ==
    (/\ result.op = "create"
     /\ result.at \in {"get_save", "create_file"}
     /\ result.untracked
     /\ ~result.raced)
    => /\ result.status = "Ok"
       /\ Cardinality({s \in saves : s.save_path = result.path}) = 1
       /\ \A s \in {x \in saves : x.save_path = result.path} :
            \A p \in result.regular :
              /\ Cardinality({f \in files : f.file_path = p}) = 1
              /\ \E f \in files : /\ f.file_path = p
                                  /\ f.save_id = s.id
                                  /\ f.file_hash = Digest(disk[p].bytes)
              /\ BackupOf(s, p).some
              /\ IsFile(disk, BackupOf(s, p).val)
              /\ disk[BackupOf(s, p).val].bytes = disk[p].bytes

\* C3: delete_save deletes the File rows, then the Save row, then the UUID
\* directory: with the File rows gone and the Save row not yet deleted the
\* Save row and the whole backup are still there, whatever ends the operation,
\* and no step removes the UUID directory of a Save that is in the store.
C3_DeleteOrder ==
    /\ [](pc = "d_save" => \A f \in files : f.save_id # del.save.id)
    /\ [](pc \in {"d_files", "d_save"} => del.save \in saves)
    /\ [][(pc = "d_files" \/ pc = "d_save") => (BackupSide(disk') = BackupSide(disk))]_vars
    /\ [][pc = "d_files" => saves' = saves]_vars
    /\ [][\A s \in saves : (Exists(disk, Parent(s.backup_path).val)
                               => Exists(disk', Parent(s.backup_path).val))]_vars

\* C3 witness: delete_save was killed after it deleted the File rows and
\* before it deleted the Save row; the Save row and the backup file remain
C3_Witness ==
    /\ result.op = "delete"
    /\ result.status = "Killed"
    /\ result.at = "d_save"
    /\ result.loc.rows >= 1
    /\ result.loc.save \in saves
    /\ files = {}
    /\ IsFile(disk, BackupOf(result.loc.save, FileA).val)

\* what check_save has to report for a save, as sets of paths
LiveUnder(save) ==
    {p \in DOMAIN disk : IsPrefix(save.save_path, p) /\ p # save.save_path}
Tracked(save) == {f \in files : f.save_id = save.id}
TrackedPaths(save) == {f.file_path : f \in Tracked(save)}
Reported(changes, kind) ==
    {changes[k].path : k \in {j \in 1..Len(changes) : changes[j].change = kind}}

Classified(save, changes) ==
    /\ Reported(changes, "Missing") = TrackedPaths(save) \ LiveUnder(save)
    /\ Reported(changes, "New") =
         {p \in LiveUnder(save) : IsFile(disk, p) /\ p \notin TrackedPaths(save)}
    /\ Reported(changes, "Update") =
         {p \in LiveUnder(save) :
            /\ IsFile(disk, p)
            /\ \E f \in Tracked(save) :
                 f.file_path = p /\ f.file_hash # Digest(disk[p].bytes)}
    /\ \A j, k \in 1..Len(changes) : changes[j].path = changes[k].path => j = k

\* C4: for every tracked set and live tree check_save reports Missing for the
\* tracked paths the crawl lacks, New for the untracked live regular files,
\* Update for the tracked live regular files whose digest differs, nothing
\* else, and no path twice.
C4_CheckClassifies ==
    result.op = "check" => Classified(result.save, result.changes)

\* the same for the saves that have a File row
CheckClassifiesTracked ==
    (result.op = "check" /\ Tracked(result.save) # {})
      => result.status = "Ok" /\ Classified(result.save, result.changes)

\* a check_save of a save with two File rows reported a Missing and an Update
CheckClassifiesTrackedWitness ==
    /\ result.op = "check"
    /\ Reported(result.changes, "Missing") # {}
    /\ Reported(result.changes, "Update") # {}

\* C5: when update_save returns success, the File rows of the save are the
\* live regular files under save_path, each with the digest of its file, each
\* with an identical backup copy, and no backup file is left for a path that
\* was reported Missing.  Stated for an update that started from a backup
\* agreeing with the rows and during which nothing else wrote the live tree.
C5_UpdatePostcondition ==
    (/\ result.op = "update"
     /\ result.status \in {"Ok", "OkNone"}
     /\ result.clean
     /\ ~result.raced)
    => LET save == result.save
       IN  /\ TrackedPaths(save) = {p \in LiveUnder(save) : IsFile(disk, p)}
           /\ \A f \in Tracked(save) :
                /\ IsFile(disk, f.file_path)
                /\ f.file_hash = Digest(disk[f.file_path].bytes)
                /\ IsFile(disk, BackupOf(save, f.file_path).val)
                /\ disk[BackupOf(save, f.file_path).val].bytes
                     = disk[f.file_path].bytes
           /\ \A p \in Reported(result.changes, "Missing") :
                ~Exists(disk, BackupOf(save, p).val)

\* the rows of a path, and the backup entry of a path, in a store and a
\* backup side
RowsOf(F, p) == {f \in F : f.file_path = p}
EntryOf(b, p) == IF p \in DOMAIN b THEN b[p] ELSE [kind |-> "absent", bytes |-> <<>>]

\* C6 as written: an update_save that failed while applying left the File
\* rows and the backup side as they were when it started.  Stated for an
\* update that started from a backup agreeing with the rows.
C6_UpdateAllOrNothing ==
    (result.op = "update" /\ result.status = "Err" /\ result.at # "check"
       /\ result.clean)
    => /\ files = result.pre.files
       /\ BackupSide(disk) = result.pre.backup

\* the call of the current ChangeRecord that cannot succeed
ApplyFails ==
    LET log == upd.changes[upd.i]
    IN  \/ /\ pc = "u_apply"
           /\ log.change = "Missing"
           /\ ~RemoveFileOk(disk, BackupOf(upd.save, log.path).val)
        \/ /\ pc = "u_apply"
           /\ log.change # "Missing"
           /\ ~copy_file_to_backup_dir(disk, upd.save.backup_path, log.path, FALSE).ok
        \/ /\ pc = "u_record"
           /\ ~IsFile(disk, log.path)

\* the ChangeRecord k of a finished update was applied
Applied(k) ==
    LET log == result.changes[k]
        b == BackupOf(result.save, log.path).val
    IN  IF log.change = "Missing"
        THEN RowsOf(files, log.path) = {} /\ ~Exists(disk, b)
        ELSE RowsOf(files, log.path) # {} /\ Exists(disk, b)

\* the ChangeRecord k of a finished update left no trace
Untouched(k) ==
    LET log == result.changes[k]
        b == BackupOf(result.save, log.path).val
    IN  /\ RowsOf(files, log.path) = RowsOf(result.pre.files, log.path)
        /\ EntryOf(BackupSide(disk), b) = EntryOf(result.pre.backup, b)

\* C6 amended: a ChangeRecord that cannot be applied ends update_save with an
\* error at that record; the records before it stay applied, the records
\* after it are not applied, and of the failing record the calls before the
\* failing one stay done: nothing is rolled back.
C6_UpdateStopsAtFailure ==
    /\ [][(pc \in {"u_apply", "u_record"} /\ ApplyFails /\ upd' # upd
             /\ result'.status # "Killed")
          => (result'.op = "update" /\ result'.status = "Err"
                /\ result'.i = upd.i)]_vars
    /\ []((result.op = "update" /\ result.status = "Err" /\ result.at # "check")
          => /\ \A k \in 1..(result.i - 1) : Applied(k)
             /\ \A k \in (result.i + 1)..Len(result.changes) : Untouched(k)
             /\ LET log == result.changes[result.i]
                    b == BackupOf(result.save, log.path).val
                IN  /\ result.at = "remove_file" =>
                         /\ RowsOf(files, log.path) = {}
                         /\ EntryOf(BackupSide(disk), b) = EntryOf(result.pre.backup, b)
                    /\ result.at = "copy" =>
                         RowsOf(files, log.path) = RowsOf(result.pre.files, log.path)
                    /\ result.at = "hash" =>
                         /\ RowsOf(files, log.path) = RowsOf(result.pre.files, log.path)
                         /\ Exists(disk, b))

\* C6 witness: update_save failed at its second ChangeRecord and the first
\* one stays applied
C6_Witness ==
    /\ result.op = "update"
    /\ result.status = "Err"
    /\ result.i = 2
    /\ Applied(1)
    /\ files # result.pre.files

\* C9: after an update_save that returned success, every File row it wrote
\* holds the digest of the backup copy of its path, also when the live file
\* is written while the update runs.
C9_DigestIsBackupHash ==
    (result.op = "update" /\ result.status = "Ok")
    => \A p \in result.wrote :
         \A f \in RowsOf(files, p) :
           /\ IsFile(disk, BackupOf(result.save, p).val)
           /\ f.file_hash = Digest(disk[BackupOf(result.save, p).val].bytes)

\* C10: a query that carries only a uuid returns the Save stored with that
\* uuid.
C10_GetSaveByUuid ==
    \A s \in saves :
      get_save(saves, [SaveQuery EXCEPT !.uuid = Some(s.uuid)])
        = [kind |-> "some", val |-> s]

\* C7: for a path under a save root whose last component is the last
\* component of the backup root, get_backup_path returns the backup root
\* joined with the path's suffix relative to the save root.
C7_MapRoundTrip ==
    (/\ mapOut.op = "map"
     /\ IsPrefix(mapIn.root, mapIn.file_path)
     /\ mapIn.file_path # mapIn.root
     /\ FileName(mapIn.root) = FileName(mapIn.backup_path))
    => mapOut.val = Some(Join(mapIn.backup_path,
                              StripPrefix(mapIn.file_path, mapIn.root).val))

\* C8: every Save row has backup_path = data_location / uuid / the last
\* component of its save_path.
C8_BackupPathInvariant ==
    \A s \in saves :
      s.backup_path = Join(Join(data_location, <<s.uuid>>),
                           <<FileName(s.save_path).val>>)

\* C11: Database::create_save inserts exactly one Save row, with the fields
\* of the NewSave, when no Save has its save_path, and otherwise changes no
\* table; a second call with the same NewSave changes nothing.
C11_CreateSaveIdempotent ==
    [][(result'.op = "db_create_save" /\ budget' = budget + 1)
       => LET n == result'.new_save
          IN  /\ files' = files
              /\ users' = users
              /\ IF \E s \in saves : s.save_path = n.save_path
                 THEN saves' = saves
                 ELSE \E r \in saves' :
                        /\ r \notin saves
                        /\ saves' = saves \cup {r}
                        /\ [f \in DOMAIN n |-> r[f]] = n
              /\ Database_create_save(saves', n) = saves']_vars

\* C11 witness: create_save was called with the save_path of a stored Save
\* of another uuid, and the store holds that Save alone for the path
C11_Witness ==
    /\ result.op = "db_create_save"
    /\ result.existed
    /\ \E s \in saves : /\ s.save_path = result.new_save.save_path
                        /\ s.uuid # result.new_save.uuid
    /\ Cardinality({s \in saves : s.save_path = result.new_save.save_path}) = 1

\* C12: check_save, whether it returns the changes or an error, leaves the
\* Save, File and User rows, the live tree and the backup directory as they
\* were.
C12_CheckReadOnly ==
    [][result'.op = "check"
       => (disk' = disk /\ saves' = saves /\ files' = files /\ users' = users)]_vars

\* C12 witness: a check_save that reported a Missing and a New path
C12_Witness ==
    /\ result.op = "check"
    /\ result.status = "Ok"
    /\ Reported(result.changes, "Missing") # {}
    /\ Reported(result.changes, "New") # {}
    /\ Reported(result.changes, "Missing") \subseteq TrackedPaths(result.save)

\* C13: calc_hash returns what one write of all the bytes of the file to the
\* seeded hasher gives, whatever the length of the file (empty, shorter than
\* a chunk, a multiple of the chunk size, longer) and whatever the chunk size.
C13_HashChunkInvariant ==
    callOut.op = "calc_hash"
    => /\ callOut.val = hasher_finish(hasher_write(xxhash_seed, callIn.bytes))
       /\ \A k \in 1..(Len(callIn.bytes) + 1) :
            hasher_finish(hash_loop(xxhash_seed, callIn.bytes, k)) = callOut.val

\* C13 witness: calc_hash returned for a file of more than one chunk whose
\* last chunk is short
C13_Witness ==
    /\ callOut.op = "calc_hash"
    /\ Len(callIn.bytes) > ChunkSize
    /\ Len(callIn.bytes) % ChunkSize # 0

(***************************************************************************)
(* C14: decompress_archive(compress_directory(D, A), T) leaves under T a   *)
(* directory named as D whose files, subdirectories and file contents are  *)
(* exactly those of D.                                                     *)
(***************************************************************************)
\* the entries beneath root, by their paths relative to root
TreeUnder(d, root) ==
    [r \in {StripPrefix(p, root).val : p \in {q \in DOMAIN d : IsPrefix(root, q)}} |->
        d[Join(root, r)]]

C14_TarRoundTrip ==
    callOut.op = "decompress_archive"
    => /\ ~callOut.io_fault => callOut.val = "ok"
       /\ callOut.val = "ok"
          => LET copy == Join(callIn.target, <<FileName(callIn.source).val>>)
             IN  /\ IsDir(disk, callIn.source)
                 /\ TreeUnder(disk, copy) = TreeUnder(disk, callIn.source)

\* a file, and a file inside a subdirectory, came back
C14_Witness ==
    /\ callOut.op = "decompress_archive"
    /\ callOut.val = "ok"
    /\ IsFile(disk, FileA)
    /\ IsFile(disk, Nested)
    /\ disk[TarTarget \o <<"game", "d", "e">>] = disk[Nested]
    /\ disk[TarTarget \o <<"game", "a">>] = disk[FileA]
    /\ disk[FileA] # disk[Nested]

(***************************************************************************)
(* C15: local-user resolution returns the User of the configured username  *)
(* if stored; with an empty roster a newly created User of that name; with *)
(* a roster of exactly one User, that User.  The returned User is a record *)
(* of the store, the configured local_username is its username, and no     *)
(* User was created unless the roster was empty.                           *)
(***************************************************************************)
Matching(U, username) == {r \in U : r.username = username}

C15_LocalUserResolved ==
    callOut.op = "get_local_user"
    => LET before == callIn.users
           found == Matching(before, callIn.username)
           user == callOut.user
       IN  /\ found # {} => callOut.kind = "returned" /\ user \in found
           /\ before = {}
              => /\ callOut.kind = "returned"
                 /\ user.username = callIn.username
                 /\ users = {user}
           /\ (found = {} /\ Cardinality(before) = 1)
              => callOut.kind = "returned" /\ user \in before
           /\ callOut.kind = "returned"
              => /\ user \in users
                 /\ config.local_username = user.username
                 /\ (users # before => before = {})

(***************************************************************************)
(* C16: with two or more Users stored and none of the configured username, *)
(* local-user resolution aborts without selecting a User and leaves the    *)
(* User records and the configuration as they were.                        *)
(***************************************************************************)
Ambiguous ==
    /\ callIn.op = "get_local_user"
    /\ Cardinality(callIn.users) >= 2
    /\ Matching(callIn.users, callIn.username) = {}

C16_AmbiguousRosterAborts ==
    Ambiguous
    => /\ thr["main"].pc \in {"get_local_user", "todo_panic"}
       /\ callOut.op = "get_local_user"
          => callOut.kind = "todo_panic" /\ callOut.user = NoUser
       /\ users = callIn.users
       /\ config = callIn.config
       /\ cfg_file = callIn.cfg_file

C16_Witness ==
    /\ Ambiguous
    /\ callOut.op = "get_local_user"
    /\ callOut.kind = "todo_panic"
    /\ thr["main"].pc = "todo_panic"

(***************************************************************************)
(* C17: create on a root_path that is absent from disk fails with "does    *)
(* not exist", creates nothing in the backup location and writes no Save   *)
(* or File record.                                                         *)
(***************************************************************************)
C17_CreateAbsentFails ==
    [][(/\ pc = "idle"
        /\ (pc' = "c_copy" \/ result'.op = "create")
        /\ ~Exists(disk, IF pc' = "c_copy" THEN cr'.new_save.save_path
                         ELSE result'.path))
       => (/\ pc' = "idle"
           /\ result'.op = "create"
           /\ result'.status = "Err"
           /\ result'.at = "exists"
           /\ disk' = disk
           /\ saves' = saves
           /\ files' = files)]_vars

C17_Witness ==
    /\ result.op = "create"
    /\ result.status = "Err"
    /\ result.at = "exists"
    /\ ~Exists(disk, result.path)
    /\ pc = "idle"

(***************************************************************************)
(* C18: crawl never fails: an unreadable or non-directory root gives the   *)
(* empty sequence, and an I/O error on a directory or a directory entry    *)
(* met on the way makes that subtree report nothing; no error, no panic.   *)
(***************************************************************************)
C18_CrawlNeverFails ==
    callOut.op = "crawl"
    => /\ callOut.kind = "ok"
       /\ (~IsDir(disk, callIn.path) \/ callIn.path \in callIn.unreadable)
          => callOut.val = <<>>
       /\ \A i \in 1..Len(callOut.val) :
            /\ callOut.val[i] \notin callIn.broken
            /\ \A q \in callIn.unreadable \cup callIn.broken :
                 ~(IsPrefix(q, callOut.val[i]) /\ q # callOut.val[i])

(***************************************************************************)
(* C19: after Config::update(c) returns, the next static_config() read of  *)
(* the same thread yields c, whatever other threads calling Config::update *)
(* or load_from_file do in between.                                        *)
(***************************************************************************)
C19_ReadYourWrite ==
    \A t \in DOMAIN thr :
      thr[t].pc \in {"reading", "done"} => thr[t].actual = Some(thr[t].expected)

(***************************************************************************)
(* C20: in the sequence check(save) returns, every Missing record comes    *)
(* before every New and every Update record.                               *)
(***************************************************************************)
C20_MissingFirst ==
    (result.op = "check" /\ result.status = "Ok")
    => \A i, j \in 1..Len(result.changes) :
         (/\ result.changes[i].change = "Missing"
          /\ result.changes[j].change \in {"New", "Update"})
         => i < j

C20_Witness ==
    /\ result.op = "check"
    /\ result.status = "Ok"
    /\ Len(result.changes) >= 2
    /\ result.changes[1].change = "Missing"
    /\ result.changes[Len(result.changes)].change = "Update"

(***************************************************************************)
(* C21: when applying an entry fails during create or update, the          *)
(* operation returns an error, never success, and does no further copy,    *)
(* removal or metadata write for a later entry of the same operation.      *)
(***************************************************************************)
\* the copy of the current entry of create_save cannot succeed
CopyFails ==
    /\ pc = "c_copy"
    /\ cr.i <= Len(cr.files)
    /\ ~copy_file_to_backup_dir(disk, cr.new_save.backup_path, cr.files[cr.i], FALSE).ok

\* the step is one of the operation, not its interruption
OperationStep == pc # "idle" /\ (pc' # pc \/ cr' # cr \/ upd' # upd) /\ result'.status # "Killed"

C21_FailureEndsOperation ==
    /\ [][((CopyFails \/ (pc \in {"u_apply", "u_record"} /\ ApplyFails)) /\ OperationStep)
          => (result'.status = "Err" /\ result'.op \in {"create", "update"})]_vars
    /\ [][(pc = "c_copy" /\ OperationStep /\ result'.status = "Err")
          => (/\ pc' = "idle" /\ cr' = Idle
              /\ saves' = saves
              /\ files' = files
              /\ \A k \in (cr.i + 1)..Len(cr.files) :
                   ~Exists(disk', get_backup_path(cr.files[k], cr.new_save.backup_path).val))]_vars
    /\ [][(pc \in {"u_apply", "u_record"} /\ OperationStep /\ result'.status = "Err")
          => (/\ pc' = "idle" /\ upd' = Idle
              /\ saves' = saves
              /\ \A k \in (upd.i + 1)..Len(upd.changes) :
                   LET path == upd.changes[k].path
                       b == get_backup_path(path, upd.save.backup_path).val
                   IN  /\ RowsOf(files', path) = RowsOf(upd.pre.files, path)
                       /\ EntryOf(BackupSide(disk'), b) = EntryOf(upd.pre.backup, b))]_vars

\* an update failed at its first entry and left the second one alone
C21_Witness ==
    /\ result.op = "update"
    /\ result.status = "Err"
    /\ result.at \in {"copy", "remove_file", "hash"}
    /\ result.i = 1
    /\ Len(result.changes) >= 2
    /\ Untouched(2)
    /\ pc = "idle"

(***************************************************************************)
(* C22: for a readable tree, crawl(root) returns every file and every      *)
(* directory strictly beneath root exactly once, not root itself, and each *)
(* directory after all of its descendants.                                 *)
(***************************************************************************)
Readable ==
    /\ callIn.op = "crawl"
    /\ IsDir(disk, callIn.path)
    /\ callIn.unreadable = {}
    /\ callIn.broken = {}

C22_CrawlPostOrder ==
    (callOut.op = "crawl" /\ Readable)
    => LET list == callOut.val
           beneath == {p \in DOMAIN disk : IsPrefix(callIn.path, p) /\ p # callIn.path}
       IN  /\ callOut.kind = "ok"
           /\ {list[i] : i \in 1..Len(list)} = beneath
           /\ Len(list) = Cardinality(beneath)
           /\ \A i, j \in 1..Len(list) :
                (IsPrefix(list[j], list[i]) /\ list[i] # list[j]) => i < j

\* a file, a subdirectory and an entry of the subdirectory were listed
C22_Witness ==
    /\ callOut.op = "crawl"
    /\ Readable
    /\ Len(callOut.val) = 3
    /\ \E i, j, k \in 1..3 :
         /\ callOut.val[i] = Nested
         /\ callOut.val[j] = SubDir
         /\ callOut.val[k] = FileA
         /\ i < j

(***************************************************************************)
(* C23: when no component of the original path equals the last component   *)
(* of the backup root, get_backup_path returns without an error and gives  *)
(* the backup root joined with the whole original path.                    *)
(***************************************************************************)
C23_NoAnchorWholePath ==
    (/\ mapOut.op = "map"
     /\ ~InSeq(FileName(mapIn.backup_path).val, mapIn.file_path))
    => mapOut.val = Some(Join(mapIn.backup_path, mapIn.file_path))

(***************************************************************************)
(* C24: at every point of every sequence of create, update and delete,     *)
(* failed and interrupted ones included, each File row has its backup file *)
(* at the mapped path and each Save row has its backup root directory.     *)
(***************************************************************************)
C24_RecordsHaveBackups ==
    /\ \A s \in saves : IsDir(disk, s.backup_path)
    /\ \A s \in saves : \A f \in files :
         f.save_id = s.id
         => /\ BackupOf(s, f.file_path).some
            /\ IsFile(disk, BackupOf(s, f.file_path).val)

(***************************************************************************)
(* C25: after creates on distinct root paths, named or not, and            *)
(* update_save edits, at most one Save has any given friendly name (the    *)
(* empty name included) and at most one any given save_path: get_save      *)
(* never finds more than one match.                                        *)
(***************************************************************************)
C25_GetSaveUnambiguous ==
    \A s \in saves :
      /\ get_save(saves, [SaveQuery EXCEPT !.friendly_name = Some(s.friendly_name)])
           = [kind |-> "some", val |-> s]
      /\ get_save(saves, [SaveQuery EXCEPT !.path = Some(s.save_path)])
           = [kind |-> "some", val |-> s]

(***************************************************************************)
(* C26: when two invocations run create_save for one save_path at the      *)
(* same time on one database, the store ends with exactly one Save for the *)
(* path, however their existence checks and inserts interleave.            *)
(***************************************************************************)
C26_OneSavePerPath ==
    (/\ DOMAIN thr = Invocations
     /\ \A p \in Invocations : thr[p].pc \in {"done", "panic"})
    => \A p, q \in Invocations :
         thr[p].path = thr[q].path
         => Cardinality({s \in saves : s.save_path = thr[p].path}) = 1

(***************************************************************************)
(* C27: local-user resolution called from the add and list commands always *)
(* ends, with a User or by aborting: when it reaches the ownership         *)
(* transfer no read guard of the configuration lock is out, so the write   *)
(* of Config::update is never blocked for ever.                            *)
(***************************************************************************)
C27_TransferNeverBlocked ==
    /\ thr["main"].pc = "transfer" => CanWrite
    /\ thr["main"].pc # "write_deadlock"

(***************************************************************************)
(* C28: update_save is idempotent.  Right after an update_save of a save   *)
(* returned success having applied its records, with nothing written to    *)
(* the file system since it began, a check_save of the save succeeds with  *)
(* no record and an update_save of it returns None, and neither changes    *)
(* the file system or the store.                                           *)
(***************************************************************************)
AfterUpdate ==
    /\ pc = "idle"
    /\ result.op = "update"
    /\ result.status = "Ok"
    /\ ~result.raced

AgainOn(save) ==
    \/ pc' = "idle" /\ result'.op \in {"check", "update"} /\ result'.save = save
    \/ pc' = "u_apply" /\ upd'.save = save

C28_UpdateIdempotent ==
    [][(AfterUpdate /\ AgainOn(result.save))
       => (/\ pc' = "idle"
           /\ result'.status = (IF result'.op = "check" THEN "Ok" ELSE "OkNone")
           /\ result'.changes = <<>>
           /\ UNCHANGED <<disk, saves, files>>)]_vars

(***************************************************************************)
(* C29: check_save of a tracked Save that has no File record succeeds and  *)
(* reports each live regular file under save_path as New, and nothing      *)
(* else.                                                                   *)
(***************************************************************************)
C29_CheckWithoutRows ==
    (result.op = "check" /\ Tracked(result.save) = {})
    => /\ result.status = "Ok"
       /\ Reported(result.changes, "New")
            = {p \in LiveUnder(result.save) : IsFile(disk, p)}
       /\ \A k \in 1..Len(result.changes) : result.changes[k].change = "New"

(***************************************************************************)
(* C30: create_save on a root path that a Save already tracks leaves the   *)
(* store and the backup location as they were: no step of it adds a Save   *)
(* record or a File record, or a UUID directory or a copied file under the *)
(* data root.                                                              *)
(***************************************************************************)
C30_CreateOnTrackedIsNoOp ==
    [][(pc \in {"c_copy", "c_commit"} /\ ~cr.untracked)
       => (/\ saves' = saves
           /\ files' = files
           /\ BackupSide(disk') = BackupSide(disk))]_vars

====
